---- MODULE Spec2Model ----
(***************************************************************************)
(* LoopMind: the topic-generation orchestrator (App.tsx) together with the *)
(* gateway functions of services/api.ts it drives.                         *)
(*                                                                         *)
(* Strings that the code inspects character by character (backend status   *)
(* strings) are sequences of one-character strings.  An optional field of  *)
(* a JavaScript object is a field that may be missing from the record's    *)
(* DOMAIN; Opt(r, f) is <<>> for a missing field and <<r[f]>> otherwise.   *)
(* Times are milliseconds, as returned by Date.now().                      *)
(*                                                                         *)
(* activeTopic holds a Topic object in the code; the program reads nothing *)
(* of it but its id (isGenerating, handleDeleteTopic, Sidebar, the feed's  *)
(* node_id), so the model keeps the id.                                    *)
(***************************************************************************)
EXTENDS Integers, Sequences, FiniteSets, TLC

VARIABLES
    now,                \* the reading of Date.now()
    topics,             \* useState<Topic[]>
    activeTopic,        \* useState<Topic | null>: Opt of the topic's id
    generatingTopicId,  \* useState<string | null>, as Opt
    loops,              \* the poll closures created so far, in creation order
    ops,                \* handleDeleteTopic / handleRetryTopic invocations
    load,               \* the getTopics request of the mount effect
    backend,            \* the server's topic records, in /feed order
    gens,               \* POST /generate requests whose promise is pending
    genLog,             \* what the callbacks of those promises have logged
    call,               \* a gateway call of services/api.ts followed alone
    feed                \* FeedScreen: its props, its state, getCards pending

vars == <<now, topics, activeTopic, generatingTopicId, loops, ops, load,
          backend, gens, genLog, call, feed>>

-----------------------------------------------------------------------------
(* Bounds of the model *)

\* Invocations of handleGenerate, handleDeleteTopic and handleRetryTopic
MaxUserOps == 2
\* Largest card_count the server reports
MaxCards == 1

-----------------------------------------------------------------------------
(* Program constants *)

MAX_POLL_MS == 5 * 60 * 1000
FIRST_POLL_MS == 3000
FAST_INTERVAL_MS == 4000
SLOW_INTERVAL_MS == 8000
SLOW_AFTER_MS == 120000
STUCK_AGE_MS == 10 * 60 * 1000

TOPIC_COLORS ==
    << "#6C63FF", "#FF6B6B", "#F7B731", "#26de81",
       "#FC5C7D", "#45B7D1", "#F78FB3", "#7158E2" >>

TOPIC_EMOJIS ==
    << "brain", "book", "microscope", "zap",
       "cap", "bulb", "star", "rocket" >>

READY_STATUSES ==
    { <<"r","e","a","d","y">>,
      <<"c","o","m","p","l","e","t","e","d">>,
      <<"d","o","n","e">>,
      <<"c","o","m","p","l","e","t","e">>,
      <<"f","i","n","i","s","h","e","d">>,
      <<"i","m","a","g","e","s","_","p","e","n","d","i","n","g">> }

-----------------------------------------------------------------------------
(* Values of the environment *)

\* Readings of the clock at which the program is observed: at submission,
\* at the first poll, at the edge of the slow interval and just past the
\* hard deadline.
ClockValues == { 0, FIRST_POLL_MS, SLOW_AFTER_MS, MAX_POLL_MS + 1 }

LastClock == MAX_POLL_MS + 1

Titles == { "Creatine" }
Depths == { "beginner" }

\* Status strings the backend writes while and after it generates.
PENDING_RAW == <<"p","e","n","d","i","n","g">>
COMPLETED_RAW == <<" ","C","o","m","p","l","e","t","e","d">>
BackendReadyStatuses == { COMPLETED_RAW }

\* A topic that exists on the server before the app starts.
SeedId == <<"srv-", 1>>
SeedItem ==
    [ node_id |-> SeedId, title |-> "Sleep", status |-> COMPLETED_RAW,
      card_count |-> 1 ]

InitialBackends == { <<SeedItem>> }

-----------------------------------------------------------------------------
(* Helpers *)

\* A failed request, and the value of a response slot that holds nothing.
NoResponse == [ok |-> FALSE]

\* No gateway call is being followed.
NoCall == [op |-> "none", pc |-> "idle"]

Opt(r, f) == IF f \in DOMAIN r THEN <<r[f]>> ELSE <<>>

Range(s) == { s[i] : i \in 1..Len(s) }

\* Array.prototype.find, as Opt
Find(s, id) ==
    IF \E i \in 1..Len(s) : s[i].id = id
    THEN << s[CHOOSE i \in 1..Len(s) :
                /\ s[i].id = id
                /\ \A j \in 1..(i-1) : s[j].id # id] >>
    ELSE <<>>

\* prev.filter((t) => t.id !== id)
FilterOut(s, id) ==
    LET keep(t) == t.id # id IN SelectSeq(s, keep)

Ids(s) == { s[i].id : i \in 1..Len(s) }

-----------------------------------------------------------------------------
(* String functions used by the status classifier *)

UPPER == << "A","B","C","D","E","F","G","H","I","J","K","L","M",
            "N","O","P","Q","R","S","T","U","V","W","X","Y","Z" >>
LOWER == << "a","b","c","d","e","f","g","h","i","j","k","l","m",
            "n","o","p","q","r","s","t","u","v","w","x","y","z" >>

WhiteSpace == { " ", "\t", "\n", "\r" }

\* The lower-case letter of every upper-case letter
LowerOf == [ c \in Range(UPPER) |-> LOWER[CHOOSE i \in 1..26 : UPPER[i] = c] ]

toLowerCaseChar(c) == IF c \in DOMAIN LowerOf THEN LowerOf[c] ELSE c

toLowerCase(s) == [ i \in 1..Len(s) |-> toLowerCaseChar(s[i]) ]

RECURSIVE trimStart(_)
trimStart(s) ==
    IF s # <<>> /\ Head(s) \in WhiteSpace THEN trimStart(Tail(s)) ELSE s

RECURSIVE trimEnd(_)
trimEnd(s) ==
    IF s # <<>> /\ s[Len(s)] \in WhiteSpace
    THEN trimEnd(SubSeq(s, 1, Len(s) - 1))
    ELSE s

trim(s) == trimEnd(trimStart(s))

-----------------------------------------------------------------------------
(* services/api.ts: status classifier and topic normalizer *)

pickColor(index) == TOPIC_COLORS[(index % Len(TOPIC_COLORS)) + 1]

pickEmoji(index) == TOPIC_EMOJIS[(index % Len(TOPIC_EMOJIS)) + 1]

\* status is Opt: <<>> when the record has no status
\* status.toLowerCase().trim(), tabulated for the status strings the backend
\* of this model writes
NormalizedOf ==
    [ st \in BackendReadyStatuses \cup {PENDING_RAW} |->
        trim(toLowerCase(st)) ]

\* A variant that compares the status without trimming it.
isReadyStatusUntrimmed(status) ==
    IF status = <<>> \/ status[1] = <<>>
    THEN FALSE
    ELSE toLowerCase(status[1]) \in READY_STATUSES

isReadyStatus(status) ==
    IF status = <<>> \/ status[1] = <<>>
    THEN FALSE
    ELSE LET s == IF status[1] \in DOMAIN NormalizedOf
                  THEN NormalizedOf[status[1]]
                  ELSE trim(toLowerCase(status[1]))
         IN  s \in READY_STATUSES

cardCountOf(item) ==
    IF "card_count" \in DOMAIN item THEN item.card_count ELSE 0

\* A variant for which a record is stuck from the tenth minute on.
isStuckGeneratingFromTen(item, clock) ==
    IF isReadyStatus(Opt(item, "status")) THEN FALSE
    ELSE IF cardCountOf(item) > 0 THEN FALSE
    ELSE IF "created_at" \notin DOMAIN item THEN FALSE
    ELSE IF ~item.created_at.valid THEN FALSE
    ELSE (clock - item.created_at.ms) >= STUCK_AGE_MS

\* created_at, when present, is [valid |-> BOOLEAN, ms |-> Int]: an ISO
\* timestamp that new Date() parses to ms, or a string it parses to NaN.
isStuckGenerating(item, clock) ==
    IF isReadyStatus(Opt(item, "status")) THEN FALSE
    ELSE IF cardCountOf(item) > 0 THEN FALSE
    ELSE IF "created_at" \notin DOMAIN item THEN FALSE
    ELSE IF ~item.created_at.valid THEN FALSE
    ELSE (clock - item.created_at.ms) > STUCK_AGE_MS

\* A variant that draws the emoji by the clock instead of the position.
mapBackendTopicEmojiByClock(item, index, clock) ==
    [ id |-> item.node_id,
      title |-> IF "title" \in DOMAIN item THEN item.title ELSE "Untitled",
      emoji |-> IF "icon" \in DOMAIN item THEN item.icon ELSE pickEmoji(clock),
      color |-> pickColor(index),
      status |-> IF isReadyStatus(Opt(item, "status"))
                 THEN "ready" ELSE "generating",
      depth |-> "intermediate",
      cardCount |-> cardCountOf(item),
      cards |-> <<>>,
      stuck |-> isStuckGenerating(item, clock) ]

mapBackendTopic(item, index, clock) ==
    [ id |-> item.node_id,
      title |-> IF "title" \in DOMAIN item THEN item.title ELSE "Untitled",
      emoji |-> IF "icon" \in DOMAIN item THEN item.icon ELSE pickEmoji(index),
      color |-> pickColor(index),
      status |-> IF isReadyStatus(Opt(item, "status"))
                 THEN "ready" ELSE "generating",
      depth |-> "intermediate",
      cardCount |-> cardCountOf(item),
      cards |-> <<>>,
      stuck |-> isStuckGenerating(item, clock) ]

\* A response of GET /feed is [ok |-> TRUE, items |-> the records] or, for a
\* timeout, a network error or an unparseable body, [ok |-> FALSE].
getTopics(resp, clock) ==
    IF resp.ok
    THEN [ i \in 1..Len(resp.items) |->
             mapBackendTopic(resp.items[i], i - 1, clock) ]
    ELSE <<>>

\* A variant that takes a failed request for ready.
pollTopicStatusFailedIsReady(resp, nodeId, clock) ==
    LET found == Find(getTopics(resp, clock), nodeId)
    IN  IF ~resp.ok THEN "ready"
        ELSE IF found # <<>> THEN found[1].status ELSE "generating"

\* A variant that takes a topic it cannot find for ready.
pollTopicStatusMissingIsReady(resp, nodeId, clock) ==
    LET found == Find(getTopics(resp, clock), nodeId)
    IN  IF found # <<>> THEN found[1].status ELSE "ready"

\* A variant that ends the polling of a topic flagged stuck.
pollTopicStatusStuckEnds(resp, nodeId, clock) ==
    LET found == Find(getTopics(resp, clock), nodeId)
    IN  IF found = <<>> THEN "generating"
        ELSE IF found[1].stuck THEN "ready"
        ELSE found[1].status

pollTopicStatus(resp, nodeId, clock) ==
    LET found == Find(getTopics(resp, clock), nodeId)
    IN  IF found # <<>> THEN found[1].status ELSE "generating"

-----------------------------------------------------------------------------
(* App.tsx: pieces of handleGenerate / handleRetryTopic *)

NodeId(clock) == <<"node-", clock>>

\* A variant that publishes the new topic as ready.
placeholderTopicAsReady(nodeId, title, color, depth) ==
    [ id |-> nodeId, title |-> title, emoji |-> "brain", color |-> color,
      status |-> "ready", depth |-> depth, cardCount |-> 0,
      cards |-> <<>> ]

placeholderTopic(nodeId, title, color, depth) ==
    [ id |-> nodeId, title |-> title, emoji |-> "brain", color |-> color,
      status |-> "generating", depth |-> depth, cardCount |-> 0,
      cards |-> <<>> ]

\* A variant without the hard deadline.
deadlineNever(elapsed) == FALSE

deadlinePassed(elapsed) == elapsed > MAX_POLL_MS

\* A variant that keeps the short interval at the threshold itself.
pollIntervalShortAtThreshold(elapsed) ==
    IF elapsed <= SLOW_AFTER_MS THEN FAST_INTERVAL_MS ELSE SLOW_INTERVAL_MS

pollInterval(elapsed) ==
    IF elapsed < SLOW_AFTER_MS THEN FAST_INTERVAL_MS ELSE SLOW_INTERVAL_MS

\* setTimeout(poll, delay) at the reading clock: the instant from which the
\* timer may fire.  LastClock stands for every instant from LastClock on, so
\* a timer due later than that fires at the reading LastClock.
timerDue(clock, delay) ==
    IF clock + delay > LastClock THEN LastClock ELSE clock + delay

newLoop(nodeId, clock, origin) ==
    [ id |-> nodeId, startTime |-> clock, origin |-> origin,
      pc |-> "timer", due |-> timerDue(clock, FIRST_POLL_MS), elapsed |-> 0,
      resp |-> NoResponse, seen |-> <<>>, failed |-> FALSE ]

-----------------------------------------------------------------------------
(* FeedScreen.tsx: state.  The screen is mounted once with topic null; its  *)
(* props follow activeTopic and isGenerating of App.                       *)

\* getCards requests of the screen that may be pending for one topic
MaxInFlight == 2

\* The topics the screen is shown with
FeedTopics == { SeedId, NodeId(0), NodeId(FIRST_POLL_MS) }

\* useState([]), useState(0), useState(false); no request has been sent
InitialFeed ==
    [ topic |-> <<>>, isGenerating |-> FALSE, cards |-> <<>>,
      currentIndex |-> 0, loading |-> FALSE,
      inflight |-> [ t \in FeedTopics |-> 0 ] ]

-----------------------------------------------------------------------------
(* Initial state: the component has mounted and its effect has issued the  *)
(* first getTopics request.                                                *)

Init ==
    /\ now = 0
    /\ topics = <<>>
    /\ activeTopic = <<>>
    /\ generatingTopicId = <<>>
    /\ loops = <<>>
    /\ ops = <<>>
    /\ backend \in InitialBackends
    /\ load \in { [pc |-> "awaiting", resp |-> r] :
                     r \in { [ok |-> TRUE, items |-> backend], NoResponse } }
    /\ gens = {}
    /\ genLog = {}
    /\ call = NoCall
    /\ feed = InitialFeed

-----------------------------------------------------------------------------
(* The environment: clock and server *)

\* The program meets the passing of time in its timers: the clock is read
\* at the instants of ClockValues and moves while a poll timer is pending
\* (a timer may fire late by any amount).
AdvanceClock ==
    /\ \E i \in 1..Len(loops) : loops[i].pc = "timer"
    /\ \E t \in ClockValues : t > now /\ now' = t
    /\ UNCHANGED <<topics, activeTopic, generatingTopicId, loops, ops, load,
                   backend, gens,
                   genLog, call, feed>>

\* The server handles a POST /generate: it writes the topic record (a put
\* under node_id, so a record with the same id is overwritten).
backendCreate ==
    /\ \E g \in gens :
        LET item == [ node_id |-> g.node_id, title |-> g.title,
                      status |-> PENDING_RAW, card_count |-> 0 ]
            at == { i \in 1..Len(backend) : backend[i].node_id = g.node_id }
        IN  /\ g.at = "sent"
            /\ backend' = IF at = {} THEN Append(backend, item)
                          ELSE [ i \in 1..Len(backend) |->
                                   IF i \in at THEN item ELSE backend[i] ]
            /\ gens' = (gens \ {g}) \cup { [g EXCEPT !.at = "handled"] }
    /\ UNCHANGED <<now, topics, activeTopic, generatingTopicId, loops, ops,
                   load, genLog, call, feed>>

\* The generation pipeline of a topic finishes.
backendFinish ==
    /\ \E i \in 1..Len(backend), s \in BackendReadyStatuses,
          k \in 1..MaxCards :
        /\ backend[i].status = PENDING_RAW
        /\ backend' = [ backend EXCEPT ![i].status = s,
                                         ![i].card_count = k ]
    /\ UNCHANGED <<now, topics, activeTopic, generatingTopicId, loops, ops,
                   load, gens,
                   genLog, call, feed>>

\* The possible responses to a GET /feed issued now: the server answers a
\* request when it is issued and the client resumes later; a timeout, a
\* network error and an unparseable body all end in the catch clause.
FeedResponses == { [ok |-> TRUE, items |-> backend], NoResponse }

\* The lines the callbacks of api.generateTopic write to the console: the
\* parsed response (a success or the gateway's error body), or the catch.
GenerateLogLines == { "response", "timed out (expected)" }

\* A variant in which a request that fails ends the generation.
generateSettlesEndsGeneration ==
    /\ \E g \in gens, line \in GenerateLogLines :
        /\ gens' = gens \ {g}
        /\ genLog' = genLog \cup {line}
        /\ generatingTopicId' = IF line = "response" THEN generatingTopicId
                                ELSE <<>>
    /\ UNCHANGED <<now, topics, activeTopic, loops, ops, load, backend, call,
                   feed>>

\* The promise of a POST /generate settles, before or after the server has
\* handled the request (the gateway answers 504 while the pipeline goes on;
\* a request may also be lost).  Its callbacks log and do nothing else.  A
\* request that is never answered stays in gens.
generateSettles ==
    /\ \E g \in gens, line \in GenerateLogLines :
        /\ gens' = gens \ {g}
        /\ genLog' = genLog \cup {line}
    /\ UNCHANGED <<now, topics, activeTopic, generatingTopicId, loops, ops,
                   load, backend, call, feed>>

-----------------------------------------------------------------------------
(* App.tsx: mount effect *)

loadResolve ==
    /\ load.pc = "awaiting"
    /\ LET fetched == getTopics(load.resp, now)
       IN  /\ topics' = fetched
           /\ activeTopic' = IF Len(fetched) > 0 THEN <<fetched[1].id>>
                              ELSE activeTopic
    /\ load' = [pc |-> "done", resp |-> NoResponse]
    /\ UNCHANGED <<now, generatingTopicId, loops, ops, backend, gens,
                   genLog, call, feed>>

-----------------------------------------------------------------------------
(* App.tsx: handleSelectTopic, handleGenerate *)

handleSelectTopic ==
    /\ \E i \in 1..Len(topics) : activeTopic' = <<topics[i].id>>
    /\ UNCHANGED <<now, topics, generatingTopicId, loops, ops, load,
                   backend, gens,
                   genLog, call, feed>>

UserOps == Len(ops) + Cardinality({ i \in 1..Len(loops) :
                                      loops[i].origin = "generate" })

CanStartOp == UserOps < MaxUserOps

\* The synchronous part shared by handleGenerate and the continuation of
\* handleRetryTopic: request, placeholder, three state updates, first timer.
startGeneration(prev, title, color, depth, origin) ==
    LET nodeId == NodeId(now)
        ph == placeholderTopic(nodeId, title, color, depth)
    IN  /\ gens' = gens \cup { [node_id |-> nodeId, title |-> title,
                                at |-> "sent"] }
        /\ topics' = <<ph>> \o prev
        /\ activeTopic' = <<ph.id>>
        /\ generatingTopicId' = <<nodeId>>
        /\ loops' = Append(loops, newLoop(nodeId, now, origin))

handleGenerate ==
    /\ CanStartOp
    /\ \E title \in Titles, depth \in Depths :
        startGeneration(topics, title, "#6C63FF", depth, "generate")
    /\ UNCHANGED <<now, ops, load, backend, genLog, call, feed>>

-----------------------------------------------------------------------------
(* App.tsx: poll.  pc of a loop: "timer" (setTimeout pending); "poll",     *)
(* "refresh", "final" while the tick awaits pollTopicStatus, the getTopics *)
(* after ready, or the getTopics after the deadline; "done" once a tick    *)
(* returned without rescheduling.  seen is the target's topic as the last  *)
(* pollTopicStatus found it ready; failed tells that the request of the    *)
(* last tick failed.                                                       *)

\* What pollTopicStatus(nodeId) reads of a response: the records of nodeId
\* (find compares ids, and the status of a mapped record depends on nothing
\* but the record).
ForStatus(r, nodeId) ==
    IF r.ok
    THEN LET own(b) == b.node_id = nodeId
         IN  [ok |-> TRUE, items |-> SelectSeq(r.items, own)]
    ELSE r

\* A variant that sets the timer of the next tick when the tick starts.
pollStartSetsTimer(i) ==
    /\ loops[i].pc = "timer"
    /\ now >= loops[i].due
    /\ \E r \in FeedResponses :
        LET elapsed == now - loops[i].startTime
        IN  loops' = [ loops EXCEPT
                         ![i].elapsed = elapsed,
                         ![i].due = timerDue(now, pollInterval(elapsed)),
                         ![i].failed = FALSE,
                         ![i].resp = IF deadlinePassed(elapsed) THEN r
                                     ELSE ForStatus(r, loops[i].id),
                         ![i].pc = IF deadlinePassed(elapsed)
                                   THEN "final" ELSE "poll" ]
    /\ UNCHANGED <<now, topics, activeTopic, generatingTopicId, ops, load,
                   backend, gens,
                   genLog, call, feed>>

\* The timer fires: the synchronous head of poll up to its first await.
pollStart(i) ==
    /\ loops[i].pc = "timer"
    /\ now >= loops[i].due
    /\ \E r \in FeedResponses :
        LET elapsed == now - loops[i].startTime
        IN  loops' = [ loops EXCEPT
                         ![i].elapsed = elapsed,
                         ![i].due = 0,
                         ![i].failed = FALSE,
                         ![i].resp = IF deadlinePassed(elapsed) THEN r
                                     ELSE ForStatus(r, loops[i].id),
                         ![i].pc = IF deadlinePassed(elapsed)
                                   THEN "final" ELSE "poll" ]
    /\ UNCHANGED <<now, topics, activeTopic, generatingTopicId, ops, load,
                   backend, gens,
                   genLog, call, feed>>

\* await api.pollTopicStatus(nodeId) resumes.
pollResolve(i) ==
    /\ loops[i].pc = "poll"
    /\ LET status == pollTopicStatus(loops[i].resp, loops[i].id, now)
       IN  IF status = "ready"
           THEN \E r \in FeedResponses :
                loops' = [ loops EXCEPT
                             ![i].pc = "refresh",
                             ![i].resp = r,
                             ![i].seen = Find(getTopics(loops[i].resp, now),
                                              loops[i].id) ]
           ELSE loops' = [ loops EXCEPT
                             ![i].pc = "timer",
                             ![i].resp = NoResponse,
                             ![i].elapsed = 0,
                             ![i].failed = ~loops[i].resp.ok,
                             ![i].due = timerDue(now,
                                             pollInterval(loops[i].elapsed)) ]
    /\ UNCHANGED <<now, topics, activeTopic, generatingTopicId, ops, load,
                   backend, gens,
                   genLog, call, feed>>

\* const refreshed = await api.getTopics() resumes, in either branch.
publishRefreshed(i) ==
    LET refreshed == getTopics(loops[i].resp, now)
        found == Find(refreshed, loops[i].id)
    IN  /\ topics' = refreshed
        /\ activeTopic' = IF found # <<>> THEN <<found[1].id>>
                           ELSE activeTopic
        /\ generatingTopicId' = <<>>
        /\ loops' = [ loops EXCEPT ![i].pc = "done",
                                   ![i].resp = NoResponse,
                                   ![i].seen = <<>>,
                                   ![i].elapsed = 0 ]

refreshResolve(i) ==
    /\ loops[i].pc = "refresh"
    /\ publishRefreshed(i)
    /\ UNCHANGED <<now, ops, load, backend, gens,
                   genLog, call, feed>>

finalResolve(i) ==
    /\ loops[i].pc = "final"
    /\ publishRefreshed(i)
    /\ UNCHANGED <<now, ops, load, backend, gens,
                   genLog, call, feed>>

-----------------------------------------------------------------------------
(* App.tsx: handleDeleteTopic, handleRetryTopic.  pc of an invocation:     *)
(* "awaiting" (api.deleteTopic pending), "done".                           *)

\* api.deleteTopic(nodeId): the server deletes the record, or the request
\* fails; either way the promise resolves and its value is ignored.
deleteTopic(nodeId, succeeds) ==
    IF succeeds
    THEN LET keep(b) == b.node_id # nodeId IN SelectSeq(backend, keep)
    ELSE backend

\* handleDeleteTopic is passed the id, handleRetryTopic the Topic; the
\* closure of handleDeleteTopic holds the activeTopic of its render.
\* nloops and inflight record history (see doneOp).
newOp(kind, topic, succeeds) ==
    [ kind |-> kind,
      topic |-> IF kind = "retry" THEN topic ELSE [id |-> topic.id],
      active |-> IF kind = "delete" THEN activeTopic ELSE <<>>,
      pc |-> "awaiting", deleted |-> succeeds,
      nloops |-> Len(loops), inflight |-> {} ]

\* The loops that await a getTopics whose list they will publish.
Refreshing == { i \in 1..Len(loops) : loops[i].pc \in {"refresh", "final"} }

\* An invocation that has returned: what is kept of it is the id it deleted,
\* whether the server deleted it, the number of poll closures that existed
\* when it was invoked and the refreshes in flight when it returned.
doneOp(op) ==
    [ kind |-> op.kind, topic |-> [id |-> op.topic.id], active |-> <<>>,
      pc |-> "done", deleted |-> op.deleted, nloops |-> op.nloops,
      inflight |-> Refreshing ]

\* Sidebar: Delete is offered for every listed topic.
handleDeleteTopic ==
    /\ CanStartOp
    /\ \E i \in 1..Len(topics), succeeds \in BOOLEAN :
        /\ backend' = deleteTopic(topics[i].id, succeeds)
        /\ ops' = Append(ops, newOp("delete", topics[i], succeeds))
    /\ UNCHANGED <<now, topics, activeTopic, generatingTopicId, loops, load,
                   gens,
                   genLog, call, feed>>

\* Sidebar: Retry Generation is offered for topics shown as generating.
handleRetryTopic ==
    /\ CanStartOp
    /\ \E i \in 1..Len(topics), succeeds \in BOOLEAN :
        /\ topics[i].status = "generating"
        /\ backend' = deleteTopic(topics[i].id, succeeds)
        /\ ops' = Append(ops, newOp("retry", topics[i], succeeds))
    /\ UNCHANGED <<now, topics, activeTopic, generatingTopicId, loops, load,
                   gens,
                   genLog, call, feed>>

\* The continuation of handleDeleteTopic; activeTopic is the one of the
\* render that created the callback.
deleteResolve(k) ==
    /\ ops[k].pc = "awaiting"
    /\ ops[k].kind = "delete"
    /\ LET topicId == ops[k].topic.id
           updated == FilterOut(topics, topicId)
       IN  /\ topics' = updated
           /\ activeTopic' =
                IF ops[k].active = <<topicId>>
                THEN (IF updated # <<>> THEN <<updated[1].id>> ELSE <<>>)
                ELSE activeTopic
    /\ ops' = [ ops EXCEPT ![k] = doneOp(ops[k]) ]
    /\ UNCHANGED <<now, generatingTopicId, loops, load, backend, gens,
                   genLog, call, feed>>

\* The continuation of handleRetryTopic.
retryResolve(k) ==
    /\ ops[k].pc = "awaiting"
    /\ ops[k].kind = "retry"
    /\ LET topic == ops[k].topic
       IN  startGeneration(FilterOut(topics, topic.id), topic.title,
                           topic.color, topic.depth, "retry")
    /\ ops' = [ ops EXCEPT ![k] = doneOp(ops[k]) ]
    /\ UNCHANGED <<now, load, backend, genLog, call, feed>>

-----------------------------------------------------------------------------

Next ==
    \/ AdvanceClock
    \/ backendCreate
    \/ backendFinish
    \/ loadResolve
    \/ handleSelectTopic
    \/ handleGenerate
    \/ handleDeleteTopic
    \/ handleRetryTopic
    \/ \E i \in 1..Len(loops) : pollStart(i)
    \/ \E i \in 1..Len(loops) : pollResolve(i)
    \/ \E i \in 1..Len(loops) : refreshResolve(i)
    \/ \E i \in 1..Len(loops) : finalResolve(i)
    \/ \E k \in 1..Len(ops) : deleteResolve(k)
    \/ \E k \in 1..Len(ops) : retryResolve(k)

Spec == Init /\ [][Next]_vars

\* The submission of generations followed up to the settling of the
\* POST /generate promises.  generateSettles is left out of Next: it writes
\* gens and genLog only, and of these the rest of the program reads nothing
\* but the requests the server has yet to handle.
SubmitNext ==
    \/ AdvanceClock
    \/ backendCreate
    \/ backendFinish
    \/ generateSettles
    \/ handleGenerate
    \/ \E i \in 1..Len(loops) : pollStart(i)
    \/ \E i \in 1..Len(loops) : pollResolve(i)
    \/ \E i \in 1..Len(loops) : refreshResolve(i)
    \/ \E i \in 1..Len(loops) : finalResolve(i)

SubmitSpec == Init /\ [][SubmitNext]_vars

\* A step of the poll closure i: at most one of the four is enabled, by pc.
loopStep(i) ==
    /\ i <= Len(loops)
    /\ \/ pollStart(i)
       \/ pollResolve(i)
       \/ refreshResolve(i)
       \/ finalResolve(i)

\* The event loop runs every timer that is due and every continuation whose
\* promise has settled, and time passes.  Every request settles: the wait
\* for a response is bounded by fetchWithTimeout, and the reading of its
\* body is taken to end.
Fairness ==
    /\ WF_vars(AdvanceClock)
    /\ \A i \in 1..MaxUserOps : WF_vars(loopStep(i))

\* The life of the poll closures.  Left out are the mount effect,
\* handleSelectTopic and handleDeleteTopic: what they write of the client
\* (topics, activeTopic) no poll closure reads, and the server-side delete
\* of handleDeleteTopic is also the first half of handleRetryTopic.
LiveNext ==
    \/ AdvanceClock
    \/ backendCreate
    \/ backendFinish
    \/ handleGenerate
    \/ handleRetryTopic
    \/ \E i \in 1..Len(loops) : pollStart(i)
    \/ \E i \in 1..Len(loops) : pollResolve(i)
    \/ \E i \in 1..Len(loops) : refreshResolve(i)
    \/ \E i \in 1..Len(loops) : finalResolve(i)
    \/ \E k \in 1..Len(ops) : retryResolve(k)

LiveSpec == Init /\ [][LiveNext]_vars /\ Fairness

-----------------------------------------------------------------------------
(* The server stamps its records.  The client reads created_at against its *)
(* own clock: when the two clocks or their time zones disagree, a record   *)
(* reads as created long before the request that made it.                  *)

\* A stamp that at every reading of the clock lies fifteen minutes or more
\* back
SkewedStamp == [valid |-> TRUE, ms |-> 0 - (15 * 60 * 1000)]

backendCreateStamped ==
    /\ \E g \in gens :
        LET item == [ node_id |-> g.node_id, title |-> g.title,
                      status |-> PENDING_RAW, card_count |-> 0,
                      created_at |-> SkewedStamp ]
            at == { i \in 1..Len(backend) : backend[i].node_id = g.node_id }
        IN  /\ g.at = "sent"
            /\ backend' = IF at = {} THEN Append(backend, item)
                          ELSE [ i \in 1..Len(backend) |->
                                   IF i \in at THEN item ELSE backend[i] ]
            /\ gens' = (gens \ {g}) \cup { [g EXCEPT !.at = "handled"] }
    /\ UNCHANGED <<now, topics, activeTopic, generatingTopicId, loops, ops,
                   load, genLog, call, feed>>

StuckNext ==
    \/ AdvanceClock
    \/ backendCreate
    \/ backendCreateStamped
    \/ backendFinish
    \/ loadResolve
    \/ handleSelectTopic
    \/ handleGenerate
    \/ handleDeleteTopic
    \/ handleRetryTopic
    \/ \E i \in 1..Len(loops) : pollStart(i)
    \/ \E i \in 1..Len(loops) : pollResolve(i)
    \/ \E i \in 1..Len(loops) : refreshResolve(i)
    \/ \E i \in 1..Len(loops) : finalResolve(i)
    \/ \E k \in 1..Len(ops) : deleteResolve(k)
    \/ \E k \in 1..Len(ops) : retryResolve(k)

StuckSpec == Init /\ [][StuckNext]_vars

-----------------------------------------------------------------------------
(* services/api.ts: card mapper.  A raw ALU is a record that has the JSON  *)
(* fields it carries; a JSON null held by a string field is JSON_NULL, a   *)
(* null entry of a batch is NullEntry.  A text that the code assembles     *)
(* (caption, option ids) is a sequence of tokens.                          *)

\* Largest number of choices of a quiz record
MaxChoices == 3
\* Largest number of records in a fetched batch
MaxBatch == 2

JSON_NULL == "<null>"
NullEntry == [json_null |-> TRUE]

isNullEntry(x) == "json_null" \in DOMAIN x

\* a ?? b on string fields f and g of r, as Opt
present(r, f) == f \in DOMAIN r /\ r[f] # JSON_NULL

coalesce(r, f, g) ==
    IF present(r, f) THEN <<r[f]>>
    ELSE IF present(r, g) THEN <<r[g]>>
    ELSE <<>>

\* r.f ?? dflt
orElse(r, f, dflt) == IF present(r, f) THEN r[f] ELSE dflt

DIGITS == << "0", "1", "2", "3", "4", "5", "6", "7", "8", "9" >>

\* String(n) for an integer n: its decimal digits, with the sign
RECURSIVE String(_)
String(n) ==
    IF n < 0 THEN <<"-">> \o String(0 - n)
    ELSE IF n < 10 THEN << DIGITS[n + 1] >>
    ELSE String(n \div 10) \o << DIGITS[(n % 10) + 1] >>

\* Array.prototype.join(' ')
RECURSIVE join(_)
join(words) ==
    IF words = <<>> THEN <<>>
    ELSE IF Len(words) = 1 THEN << words[1] >>
    ELSE << words[1], " " >> \o join(Tail(words))

\* quiz.choices, a field that holds an array: [isArray |-> TRUE, items |-> s];
\* any other JSON value is [isArray |-> FALSE].
quizOf(alu) == IF "quiz" \in DOMAIN alu THEN alu.quiz ELSE [none |-> TRUE]

choicesOf(alu) ==
    IF "choices" \in DOMAIN quizOf(alu) THEN quizOf(alu).choices
    ELSE [isArray |-> TRUE, items |-> <<>>]

\* The statements of mapALUToCard that raise a TypeError: the read of
\* alu.alu_id on a null entry, and choices.map on a value without map.
mapALUToCardThrows(alu) ==
    \/ isNullEntry(alu)
    \/ /\ coalesce(alu, "post_type", "card_type") = <<"quiz">>
       /\ ~choicesOf(alu).isArray

imageCard(alu) ==
    LET caption == IF "caption" \in DOMAIN alu THEN alu.caption
                   ELSE IF "micro_explanation" \in DOMAIN alu
                        THEN join(alu.micro_explanation)
                        ELSE <<>>
        base == [ id |-> alu.alu_id, card_type |-> "image",
                  imageUrl |-> orElse(alu, "image_url", ""),
                  caption |-> caption,
                  hook |-> orElse(alu, "hook", "") ]
    IN  IF "credit" \in DOMAIN alu
        THEN base @@ [credit |-> alu.credit] ELSE base

\* A variant that numbers the options from one.
quizCardFromOne(alu) ==
    LET quiz == quizOf(alu)
        choices == choicesOf(alu).items
    IN  [ id |-> alu.alu_id, card_type |-> "quiz",
          question |-> IF present(quiz, "question") THEN quiz.question
                       ELSE orElse(alu, "question", ""),
          options |-> [ i \in 1..Len(choices) |->
                          [id |-> String(i), text |-> choices[i]] ],
          correctOptionId |-> String(IF "answer_index" \in DOMAIN quiz
                                     THEN quiz.answer_index ELSE 0),
          explanation |-> IF present(quiz, "explanation")
                          THEN quiz.explanation
                          ELSE orElse(alu, "explanation", "") ]

quizCard(alu) ==
    LET quiz == quizOf(alu)
        choices == choicesOf(alu).items
    IN  [ id |-> alu.alu_id, card_type |-> "quiz",
          question |-> IF present(quiz, "question") THEN quiz.question
                       ELSE orElse(alu, "question", ""),
          options |-> [ i \in 1..Len(choices) |->
                          [id |-> String(i - 1), text |-> choices[i]] ],
          correctOptionId |-> String(IF "answer_index" \in DOMAIN quiz
                                     THEN quiz.answer_index ELSE 0),
          explanation |-> IF present(quiz, "explanation")
                          THEN quiz.explanation
                          ELSE orElse(alu, "explanation", "") ]

\* A variant in which the explicit front and back fields win.
flashCardFieldsFirst(alu) ==
    LET entries == IF "flashcard" \in DOMAIN alu THEN alu.flashcard ELSE <<>>
        base == [ id |-> alu.alu_id, card_type |-> "flashcard",
                  front |-> IF present(alu, "front") THEN alu.front
                            ELSE IF Len(entries) > 0 THEN entries[1][1]
                            ELSE "",
                  back |-> IF present(alu, "back") THEN alu.back
                           ELSE IF Len(entries) > 0 THEN entries[1][2]
                           ELSE "" ]
    IN  IF "hint" \in DOMAIN alu
        THEN base @@ [hint |-> alu.hint] ELSE base

\* alu.flashcard, an object, is the sequence of its entries <<key, value>>
\* in the order of Object.entries.
flashCard(alu) ==
    LET entries == IF "flashcard" \in DOMAIN alu THEN alu.flashcard ELSE <<>>
        base == [ id |-> alu.alu_id, card_type |-> "flashcard",
                  front |-> IF Len(entries) > 0 THEN entries[1][1]
                            ELSE orElse(alu, "front", ""),
                  back |-> IF Len(entries) > 0 THEN entries[1][2]
                           ELSE orElse(alu, "back", "") ]
    IN  IF "hint" \in DOMAIN alu
        THEN base @@ [hint |-> alu.hint] ELSE base

\* A variant that reads card_type before post_type.
mapALUToCardByCardType(alu) ==
    LET postType == coalesce(alu, "card_type", "post_type")
    IN  IF postType = <<"image">> THEN << imageCard(alu) >>
        ELSE IF postType = <<"quiz">> THEN << quizCard(alu) >>
        ELSE IF postType = <<"flashcard">> THEN << flashCard(alu) >>
        ELSE <<>>

\* Card | null as Opt; defined for the records on which it does not throw
mapALUToCard(alu) ==
    LET postType == coalesce(alu, "post_type", "card_type")
    IN  IF postType = <<"image">> THEN << imageCard(alu) >>
        ELSE IF postType = <<"quiz">> THEN << quizCard(alu) >>
        ELSE IF postType = <<"flashcard">> THEN << flashCard(alu) >>
        ELSE <<>>

\* alus.map(mapALUToCard).filter((c) => c !== null)
RECURSIVE mapCards(_)
mapCards(alus) ==
    IF alus = <<>> THEN <<>>
    ELSE mapALUToCard(Head(alus)) \o mapCards(Tail(alus))

-----------------------------------------------------------------------------
(* services/api.ts: the two builds of the gateway.  "current" is the file  *)
(* that races every fetch but the generate request against a timer;        *)
(* "legacy" is the copy under src/services that awaits a plain fetch.      *)

Builds == { "current", "legacy" }

GatewayOps ==
    { "getTopics", "getCards", "generateTopic", "markLearnt", "deleteTopic" }

ReadOps == { "getTopics", "getCards" }
WriteOps == { "markLearnt", "deleteTopic" }

FETCH_TIMEOUT_MS == 15000
ABORT_AFTER_MS == 5000

\* The timer that can end the wait for the response, as Opt: the race of
\* fetchWithTimeout, the AbortController of the legacy generateTopic, or none.
timeoutOf(op, build) ==
    IF build = "current"
    THEN IF op = "generateTopic" THEN <<>> ELSE << FETCH_TIMEOUT_MS >>
    ELSE IF op = "generateTopic" THEN << ABORT_AFTER_MS >> ELSE <<>>

LEGACY_READY_STATUSES ==
    { <<"r","e","a","d","y">>,
      <<"c","o","m","p","l","e","t","e","d">>,
      <<"d","o","n","e">>,
      <<"c","o","m","p","l","e","t","e">>,
      <<"f","i","n","i","s","h","e","d">> }

\* isReadyStatus of the build; status is Opt
isReadyStatusOf(build, status) ==
    IF build = "current" THEN isReadyStatus(status)
    ELSE IF status = <<>> \/ status[1] = <<>> THEN FALSE
    ELSE trim(toLowerCase(status[1])) \in LEGACY_READY_STATUSES

\* mapBackendTopic of the build: the legacy Topic has no stuck field
mapBackendTopicOf(build, item, index, clock) ==
    IF build = "current" THEN mapBackendTopic(item, index, clock)
    ELSE [ id |-> item.node_id,
           title |-> IF "title" \in DOMAIN item THEN item.title
                     ELSE "Untitled",
           emoji |-> IF "icon" \in DOMAIN item THEN item.icon
                     ELSE pickEmoji(index),
           color |-> pickColor(index),
           status |-> IF isReadyStatusOf(build, Opt(item, "status"))
                      THEN "ready" ELSE "generating",
           depth |-> "intermediate",
           cardCount |-> cardCountOf(item),
           cards |-> <<>> ]

\* A parsed body is [kind |-> "array", items |-> s], [kind |-> "object",
\* fields |-> r] or [kind |-> "null"]; [kind |-> "none"] stands for a body
\* not read yet.
EmptyObject == [ k \in {} |-> TRUE ]
EmptyBody == [kind |-> "object", fields |-> EmptyObject]

\* data.k1 ?? data.k2 ?? ... ?? []
RECURSIVE firstOf(_, _)
firstOf(fields, keys) ==
    IF keys = <<>> THEN <<>>
    ELSE IF Head(keys) \in DOMAIN fields THEN fields[Head(keys)]
    ELSE firstOf(fields, Tail(keys))

TOPIC_KEYS == << "topics", "nodes", "items", "feed" >>
CARD_KEYS == << "cards", "alus", "items" >>

\* Array.isArray(data) ? data : data.k1 ?? ...; defined when data is not null
itemsOf(data, keys) ==
    IF data.kind = "array" THEN data.items ELSE firstOf(data.fields, keys)

\* The statements after res.json() that raise a TypeError: data.topics on
\* null, item.status on a null entry, and those of mapALUToCard.
throws(op, data) ==
    \/ op \in ReadOps /\ data.kind = "null"
    \/ /\ op = "getTopics"
       /\ data.kind # "null"
       /\ \E i \in 1..Len(itemsOf(data, TOPIC_KEYS)) :
            isNullEntry(itemsOf(data, TOPIC_KEYS)[i])
    \/ /\ op = "getCards"
       /\ data.kind # "null"
       /\ \E i \in 1..Len(itemsOf(data, CARD_KEYS)) :
            mapALUToCardThrows(itemsOf(data, CARD_KEYS)[i])

\* What the caller's promise settles to
Resolved(v) == [how |-> "resolved", value |-> v]
Pending == [how |-> "pending"]

\* A variant whose catch block throws the error on.
caughtRethrows(op, nodeId) ==
    [ how |-> "rejected",
      value |-> IF op \in ReadOps THEN <<>>
                ELSE IF op \in WriteOps THEN EmptyBody
                ELSE [node_id |-> nodeId] ]

\* The catch block of the operation, and for generateTopic the return
\* statement that follows it
caught(op, nodeId) ==
    Resolved(IF op \in ReadOps THEN <<>>
             ELSE IF op \in WriteOps THEN EmptyBody
             ELSE [node_id |-> nodeId])

\* The try block after res.json() gave data, when no statement of it throws
returned(op, build, data, nodeId, clock) ==
    Resolved(
      IF op = "getTopics"
      THEN LET items == itemsOf(data, TOPIC_KEYS)
           IN  [ i \in 1..Len(items) |->
                   mapBackendTopicOf(build, items[i], i - 1, clock) ]
      ELSE IF op = "getCards" THEN mapCards(itemsOf(data, CARD_KEYS))
      ELSE IF op \in WriteOps THEN data
      ELSE [node_id |-> nodeId])

-----------------------------------------------------------------------------
(* Records and bodies the backend sends *)

\* Inputs of isReadyStatus with the word each was written from, in one of
\* three casings and between paddings; an absent status has no word, and
\* neither has the empty string.
StatusInputs ==
    LET upper(c) == IF \E k \in 1..26 : LOWER[k] = c
                    THEN UPPER[CHOOSE k \in 1..26 : LOWER[k] = c] ELSE c
        cased(w, casing) ==
            [ i \in 1..Len(w) |->
                IF casing = "UPPER" \/ (casing = "Capitalised" /\ i = 1)
                THEN upper(w[i]) ELSE w[i] ]
        otherWords == { <<"p","e","n","d","i","n","g">>,
                        <<"r","e","a","d">>,
                        <<"r","e","a","d","y","!">>,
                        <<"d","o"," ","n","e">> }
        paddings == { <<>>, <<" ">>, <<"\t", "\n">> }
    IN  { [word |-> <<w>>, status |-> << pre \o cased(w, c) \o post >>] :
            w \in READY_STATUSES \cup otherWords,
            c \in { "lower", "Capitalised", "UPPER" },
            pre \in paddings, post \in paddings }
        \cup { [word |-> <<>>, status |-> <<>>],
               [word |-> <<>>, status |-> << <<>> >>],
               [word |-> <<>>, status |-> << <<" ">> >>] }

\* Topic records: created_at is read against the clock of the caller.
TopicItems ==
    LET base == [ node_id |-> SeedId, title |-> "Sleep" ]
        CreatedAts ==
            { [valid |-> TRUE, ms |-> 0 - (15 * 60 * 1000)],
              [valid |-> TRUE, ms |-> 0 - STUCK_AGE_MS - 1],
              [valid |-> TRUE, ms |-> 0 - STUCK_AGE_MS],
              [valid |-> TRUE, ms |-> FIRST_POLL_MS - STUCK_AGE_MS],
              [valid |-> TRUE, ms |-> 0 - (5 * 60 * 1000)],
              [valid |-> FALSE, ms |-> 0] }
        withStatus == { base } \cup
                      { base @@ [status |-> st] :
                          st \in { PENDING_RAW, COMPLETED_RAW, <<>> } }
        withCount == withStatus \cup
                     { r @@ [card_count |-> n] : r \in withStatus,
                                                 n \in 0..2 }
    IN  withCount \cup
        { r @@ [created_at |-> c] : r \in withCount, c \in CreatedAts }

\* ALU records, one for each way through mapALUToCard
ImageALU ==
    [ alu_id |-> "a1", post_type |-> "image", image_url |-> "u.png",
      micro_explanation |-> << "Deep", "sleep" >>, credit |-> "NASA" ]

QuizALU ==
    [ alu_id |-> "a3", post_type |-> "quiz",
      quiz |-> [ question |-> "Q?",
                 choices |-> [isArray |-> TRUE, items |-> <<"A", "B", "C">>],
                 answer_index |-> 1, explanation |-> "E" ] ]

BadQuizALU ==
    [ alu_id |-> "a5", post_type |-> "quiz",
      quiz |-> [ question |-> "Q?", choices |-> [isArray |-> FALSE] ] ]

FlashALU ==
    [ alu_id |-> "a6", post_type |-> "flashcard",
      flashcard |-> << <<"What is REM?", "A sleep stage">> >> ]

VideoALU ==
    [ alu_id |-> "a8", post_type |-> "video", card_type |-> "image" ]

RECURSIVE SeqsUpTo(_, _)
SeqsUpTo(S, n) ==
    IF n = 0 THEN { <<>> }
    ELSE LET shorter == SeqsUpTo(S, n - 1)
         IN  shorter \cup { Append(s, x) : s \in shorter, x \in S }

\* The records mapped one at a time: the above, records that take the other
\* branches (the type under card_type, post_type null or shadowing
\* card_type, flat fields, no type at all), and every quiz with up to
\* MaxChoices choices and an answer_index or none.
RawALUs ==
    LET captioned == [ alu_id |-> "a2", card_type |-> "image",
                       caption |-> << "REM" >>, hook |-> "Why?" ]
        flatQuiz == [ alu_id |-> "a4", post_type |-> JSON_NULL,
                      card_type |-> "quiz", question |-> "Flat?",
                      explanation |-> "F" ]
        flatFlash == [ alu_id |-> "a7", card_type |-> "flashcard",
                       front |-> "F", back |-> "B", hint |-> "H",
                       flashcard |-> <<>> ]
        twoEntries == [ alu_id |-> "a11", post_type |-> "flashcard",
                        front |-> "F", back |-> "B",
                        flashcard |-> << <<"What is X?", "X is Y">>,
                                         <<"What is Z?", "Z is W">> >> ]
        plainFlash == [ alu_id |-> "a12", post_type |-> "flashcard",
                        front |-> "F", back |-> "B" ]
        untyped == [ alu_id |-> "a9" ]
        shadowed == [ alu_id |-> "a10", post_type |-> "flashcard",
                      card_type |-> "quiz" ]
        nested(cs) == [ choices |-> [isArray |-> TRUE, items |-> cs] ]
        choiceLists == SeqsUpTo({ "A", "B" }, MaxChoices)
    IN  { ImageALU, captioned, QuizALU, flatQuiz, BadQuizALU, FlashALU,
          flatFlash, twoEntries, plainFlash, VideoALU, untyped, shadowed,
          NullEntry }
        \cup
        { [ alu_id |-> "q", post_type |-> "quiz", quiz |-> nested(cs) ] :
            cs \in choiceLists }
        \cup
        { [ alu_id |-> "q", post_type |-> "quiz",
            quiz |-> nested(cs) @@ [answer_index |-> a] ] :
            cs \in choiceLists, a \in { 0, 1, 2, 12 } }

\* Records of the batches
BatchALUs == { ImageALU, QuizALU, BadQuizALU, FlashALU, VideoALU, NullEntry }

BatchItems ==
    { SeedItem,
      [ node_id |-> <<"srv-", 2>>, title |-> "Stalled",
        status |-> PENDING_RAW, card_count |-> 0,
        created_at |-> [valid |-> TRUE, ms |-> FIRST_POLL_MS - STUCK_AGE_MS] ],
      NullEntry }

bodiesOf(S, keys) ==
    { [kind |-> "array", items |-> s] : s \in SeqsUpTo(S, MaxBatch) }
    \cup { [kind |-> "object", fields |-> [ k \in {keys[i]} |-> s ]] :
             s \in SeqsUpTo(S, MaxBatch), i \in 1..Len(keys) }
    \cup { EmptyBody, [kind |-> "null"] }

Bodies(op) ==
    IF op = "getTopics" THEN bodiesOf(BatchItems, TOPIC_KEYS)
    ELSE IF op = "getCards" THEN bodiesOf(BatchALUs, CARD_KEYS)
    ELSE { [kind |-> "object", fields |-> [ok |-> TRUE]], EmptyBody }

-----------------------------------------------------------------------------
(* One gateway call, followed from the request to the value its caller     *)
(* gets: call.pc is "fetching" while the response is awaited, "reading"    *)
(* while res.json() is awaited, "settled" afterwards.                      *)

\* The caller is still waiting for the promise of the operation
Busy == call.pc \in { "fetching", "reading" } /\ call.result.how = "pending"

\* No call is being followed
Idle == call = NoCall

settle(outcome, result) ==
    call' = [call EXCEPT !.pc = "settled", !.timer = <<>>,
                         !.outcome = outcome, !.result = result]

Frozen ==
    UNCHANGED <<now, topics, activeTopic, generatingTopicId, loops, ops,
                load, backend, gens, genLog, feed>>

\* The operation is called and sends its request.  The current
\* generateTopic returns { node_id } at once and leaves the request behind.
fetchStart ==
    /\ Idle
    /\ \E op \in GatewayOps, build \in Builds :
        call' = [ op |-> op, build |-> build, pc |-> "fetching",
                  timer |-> timeoutOf(op, build), nodeId |-> NodeId(now),
                  outcome |-> "pending", body |-> [kind |-> "none"],
                  result |-> IF op = "generateTopic" /\ build = "current"
                             THEN Resolved([node_id |-> NodeId(now)])
                             ELSE Pending ]
    /\ Frozen

\* fetch resolves with a response: the race is decided, the abort timer
\* cleared
fetchResponds ==
    /\ call.pc = "fetching"
    /\ \E data \in Bodies(call.op) :
        call' = [call EXCEPT !.pc = "reading", !.timer = <<>>,
                             !.body = data]
    /\ Frozen

\* fetch rejects: no network, connection reset
fetchFails ==
    /\ call.pc = "fetching"
    /\ settle("network error", caught(call.op, call.nodeId))
    /\ Frozen

\* The timer of the call fires before any response
timerFires ==
    /\ call.pc = "fetching"
    /\ call.timer # <<>>
    /\ settle("timeout", caught(call.op, call.nodeId))
    /\ Frozen

\* res.json() rejects: the body is not JSON
jsonFails ==
    /\ call.pc = "reading"
    /\ settle("unparseable body", caught(call.op, call.nodeId))
    /\ Frozen

\* res.json() resolves and the rest of the try block runs
jsonParsed ==
    /\ call.pc = "reading"
    /\ IF throws(call.op, call.body)
       THEN settle("mapping failed", caught(call.op, call.nodeId))
       ELSE settle("success",
                   returned(call.op, call.build, call.body, call.nodeId, now))
    /\ Frozen

-----------------------------------------------------------------------------
(* The mappers, applied to one input *)

applyIsReadyStatus ==
    /\ Idle
    /\ \E build \in Builds, in \in StatusInputs :
        call' = [ op |-> "isReadyStatus", pc |-> "applied", build |-> build,
                  word |-> in.word, status |-> in.status,
                  ready |-> isReadyStatusOf(build, in.status) ]
    /\ Frozen

applyIsStuckGenerating ==
    /\ Idle
    /\ \E item \in TopicItems :
        call' = [ op |-> "isStuckGenerating", pc |-> "applied",
                  item |-> item, at |-> now,
                  stuck |-> isStuckGenerating(item, now) ]
    /\ Frozen

applyMapBackendTopic ==
    /\ Idle
    /\ \E item \in TopicItems \cup
                   { [ node_id |-> SeedId, status |-> in.status[1] ] :
                       in \in { x \in StatusInputs : x.status # <<>> } },
          index \in { 0, 1, 9 } :
        call' = [ op |-> "mapBackendTopic", pc |-> "applied",
                  item |-> item, index |-> index, at |-> now,
                  topic |-> mapBackendTopic(item, index, now),
                  again |-> <<>>, againAt |-> now ]
    /\ Frozen

\* The same record and index are mapped a second time
mapBackendTopicAgain ==
    /\ call.op = "mapBackendTopic"
    /\ call.again = <<>>
    /\ call' = [call EXCEPT
                  !.again = << mapBackendTopic(call.item, call.index, now) >>,
                  !.againAt = now]
    /\ Frozen

applyMapALUToCard ==
    /\ Idle
    /\ \E alu \in RawALUs :
        call' = [ op |-> "mapALUToCard", pc |-> "applied", alu |-> alu,
                  at |-> now, threw |-> mapALUToCardThrows(alu),
                  card |-> IF mapALUToCardThrows(alu) THEN <<>>
                           ELSE mapALUToCard(alu),
                  mapped |-> <<>>, againAt |-> now ]
    /\ Frozen

mapALUToCardAgain ==
    /\ call.op = "mapALUToCard"
    /\ ~call.threw
    /\ call.mapped = <<>>
    /\ call' = [call EXCEPT !.mapped = << mapALUToCard(call.alu) >>,
                            !.againAt = now]
    /\ Frozen

\* The caller has taken the value; the call is followed no further
callEnds ==
    /\ ~Idle
    /\ ~Busy
    /\ call' = NoCall
    /\ Frozen

\* Time passes between two readings of Date.now()
timePasses ==
    /\ \E t \in ClockValues : t > now /\ now' = t
    /\ UNCHANGED <<topics, activeTopic, generatingTopicId, loops, ops, load,
                   backend, gens, genLog, call, feed>>

GatewayNext ==
    \/ timePasses
    \/ callEnds
    \/ fetchStart
    \/ fetchResponds
    \/ fetchFails
    \/ timerFires
    \/ jsonFails
    \/ jsonParsed
    \/ applyIsReadyStatus
    \/ applyIsStuckGenerating
    \/ applyMapBackendTopic
    \/ mapBackendTopicAgain
    \/ applyMapALUToCard
    \/ mapALUToCardAgain

GatewaySpec == Init /\ [][GatewayNext]_vars

\* A timer that is armed fires unless the response comes first, and a body
\* that has begun to arrive is read to its end.  Nothing makes the backend
\* answer.
GatewayFairness ==
    /\ WF_vars(timerFires)
    /\ WF_vars(jsonFails \/ jsonParsed)

GatewayLiveSpec == Init /\ [][GatewayNext]_vars /\ GatewayFairness

-----------------------------------------------------------------------------
(* FeedScreen.tsx: the effect that loads the cards of the shown topic, the  *)
(* callback of its getCards request, and the viewability callback.         *)

\* The body the server answers GET /feed?node_id=t with
CardStore(t) ==
    IF t = SeedId
    THEN [kind |-> "object", fields |-> [cards |-> << ImageALU >>]]
    ELSE IF t = NodeId(0)
    THEN [kind |-> "array", items |-> << QuizALU, FlashALU >>]
    ELSE [kind |-> "object", fields |-> [alus |-> << FlashALU >>]]

\* What api.getCards(t) resolves to: the mapped cards, or [] from its catch
getCards(t, ok) ==
    IF ok
    THEN returned("getCards", "current", CardStore(t), t, now).value
    ELSE caught("getCards", t).value

\* App renders the screen with other props: the effect runs because
\* topic?.id or isGenerating has changed.  isGenerating is true only for the
\* active topic, and only a topic created by a submission is generating.
showTopic(topic, isGenerating) ==
    /\ <<topic, isGenerating>> # <<feed.topic, feed.isGenerating>>
    /\ isGenerating => topic # <<>> /\ topic[1] # SeedId
    /\ IF topic = <<>> \/ isGenerating
       THEN feed' = [ feed EXCEPT !.topic = topic,
                                  !.isGenerating = isGenerating ]
       ELSE /\ feed.inflight[topic[1]] < MaxInFlight
            /\ feed' = [ feed EXCEPT !.topic = topic,
                                     !.isGenerating = isGenerating,
                                     !.currentIndex = 0,
                                     !.loading = TRUE,
                                     !.inflight[topic[1]] = @ + 1 ]
    /\ UNCHANGED <<now, topics, activeTopic, generatingTopicId, loops, ops,
                   load, backend, gens, genLog, call>>

\* The then-callback of a getCards request of the effect
cardsResolve(t, ok) ==
    /\ feed.inflight[t] > 0
    /\ feed' = [ feed EXCEPT !.cards = getCards(t, ok),
                             !.loading = FALSE,
                             !.inflight[t] = @ - 1 ]
    /\ UNCHANGED <<now, topics, activeTopic, generatingTopicId, loops, ops,
                   load, backend, gens, genLog, call>>

\* The list reports the card in view (it is rendered when the screen has a
\* topic, is not loading and has cards).
onViewableItemsChanged(index) ==
    /\ feed.topic # <<>>
    /\ ~feed.loading
    /\ index < Len(feed.cards)
    /\ feed' = [ feed EXCEPT !.currentIndex = index ]
    /\ UNCHANGED <<now, topics, activeTopic, generatingTopicId, loops, ops,
                   load, backend, gens, genLog, call>>

FeedNext ==
    \/ \E t \in FeedTopics, g \in BOOLEAN : showTopic(<<t>>, g)
    \/ showTopic(<<>>, FALSE)
    \/ \E t \in FeedTopics, ok \in BOOLEAN : cardsResolve(t, ok)
    \/ \E index \in 0..(MaxBatch - 1) : onViewableItemsChanged(index)

FeedSpec == Init /\ [][FeedNext]_vars

-----------------------------------------------------------------------------
(* Vocabulary of the properties *)

\* Loop i takes a step (only the actions of loop i change loops[i]).
Ticks(i) == i <= Len(loops) /\ loops'[i] # loops[i]

\* Loop i ends in this step, publishing a refreshed list.
Publishes(i) == Ticks(i) /\ loops'[i].pc = "done"

\* This step is the synchronous part of handleGenerate.
Generates ==
    /\ Len(loops') = Len(loops) + 1
    /\ loops'[Len(loops')].origin = "generate"

\* This step is the continuation of the handleRetryTopic invocation k.
RetryResumes(k) ==
    /\ k <= Len(ops)
    /\ ops[k].kind = "retry"
    /\ ops[k].pc = "awaiting"
    /\ ops'[k].pc = "done"

Entries(s, id) == LET is(t) == t.id = id IN SelectSeq(s, is)

-----------------------------------------------------------------------------
(* C1 *)

\* C1: the synchronous part of handleGenerate with synthetic id N leaves the
\* topic list equal to the previous list with one placeholder prepended
\* (id N, status generating, cardCount 0, no cards); from an empty list the
\* result has exactly that one entry.
C1_PlaceholderPrepended ==
    [][ Generates =>
          LET N == loops'[Len(loops')].id
          IN  /\ N = NodeId(now)
              /\ Len(topics') = Len(topics) + 1
              /\ Tail(topics') = topics
              /\ topics'[1].id = N
              /\ topics'[1].status = "generating"
              /\ topics'[1].cardCount = 0
              /\ topics'[1].cards = <<>>
              /\ (topics = <<>> => Len(topics') = 1 /\ Ids(topics') = {N})
      ]_vars

\* A generation was submitted on an empty list and no tick has run yet.
C1_Witness ==
    \E i \in 1..Len(loops) :
        /\ loops[i].origin = "generate"
        /\ loops[i].pc = "timer"
        /\ loops[i].due = timerDue(loops[i].startTime, FIRST_POLL_MS)
        /\ Len(topics) = 1
        /\ topics[1].id = loops[i].id
        /\ topics[1].status = "generating"

-----------------------------------------------------------------------------
(* C2 *)

\* C2: when a tick of the loop for N has seen the backend report N ready
\* with card_count k, then at the end of that tick the list holds N with
\* status ready and cardCount k, and no generating entry for N.
C2_ReadyReplacesPlaceholder ==
    [][ \A i \in 1..Len(loops) :
          (loops[i].pc = "refresh" /\ Publishes(i)) =>
              /\ \E j \in 1..Len(topics') :
                    /\ topics'[j].id = loops[i].id
                    /\ topics'[j].status = "ready"
                    /\ topics'[j].cardCount = loops[i].seen[1].cardCount
              /\ \A j \in 1..Len(topics') :
                    topics'[j].id = loops[i].id
                        => topics'[j].status # "generating"
      ]_vars

-----------------------------------------------------------------------------
(* C3 *)

\* The deadline of loop i lies within the readings of the clock.
DeadlineInReach(i) ==
    i <= Len(loops) /\ loops[i].startTime + MAX_POLL_MS < LastClock

\* C3: every polling loop whose deadline the clock passes ends (Ready or
\* Abandoned); the first tick that starts after the deadline makes one
\* final refresh, publishes it, clears the generating marker and schedules
\* no tick; a loop that has ended issues no further request.
C3_LoopsTerminate ==
    /\ \A i \in 1..MaxUserOps :
          DeadlineInReach(i) ~> (i <= Len(loops) /\ loops[i].pc = "done")
    /\ [][ \A i \in 1..Len(loops) :
              /\ (loops[i].pc = "timer" /\ Ticks(i)
                    /\ now - loops[i].startTime > MAX_POLL_MS)
                  => loops'[i].pc = "final"
              /\ (loops[i].pc = "final" /\ Ticks(i))
                  => /\ loops'[i].pc = "done"
                     /\ topics' = getTopics(loops[i].resp, now)
                     /\ generatingTopicId' = <<>>
              /\ loops[i].pc = "done" => loops'[i] = loops[i]
          ]_vars

\* A loop has been abandoned at its deadline.
C3_Witness ==
    \E i \in 1..Len(loops) :
        /\ loops[i].pc = "done"
        /\ now - loops[i].startTime > MAX_POLL_MS
        /\ generatingTopicId = <<>>

-----------------------------------------------------------------------------
(* C4 *)

\* The loops that polled for the topic of invocation k when it was invoked.
LoopsOfTopic(k) ==
    { i \in 1..Len(loops) : i <= ops[k].nloops
                              /\ loops[i].id = ops[k].topic.id }

\* C4: once handleRetryTopic was invoked on topic X, no tick of a loop
\* started for X changes the topic list, the active topic or the
\* generating marker.
C4_RetrySupersedesOldLoop ==
    [][ \A k \in 1..Len(ops) : \A i \in LoopsOfTopic(k) :
          (ops[k].kind = "retry" /\ Ticks(i)) =>
              UNCHANGED <<topics, activeTopic, generatingTopicId>>
      ]_vars

-----------------------------------------------------------------------------
(* C5 *)

\* C5: once handleDeleteTopic(X) has completed, no tick of the loop that
\* was polling for X changes the topic list, the active topic or the
\* generating marker.
C5_DeleteSilencesLoop ==
    [][ \A k \in 1..Len(ops) : \A i \in LoopsOfTopic(k) :
          (ops[k].kind = "delete" /\ ops[k].pc = "done" /\ Ticks(i)) =>
              UNCHANGED <<topics, activeTopic, generatingTopicId>>
      ]_vars

-----------------------------------------------------------------------------
(* C6 *)

\* C6: a tick of the loop for N leaves the entry of every other listed
\* topic M as it was: present, with the same fields.
C6_LoopTouchesOwnEntryOnly ==
    [][ \A i \in 1..Len(loops) :
          Ticks(i) =>
              \A M \in Ids(topics) \ {loops[i].id} :
                  Entries(topics', M) = Entries(topics, M)
      ]_vars

-----------------------------------------------------------------------------
(* C7 *)

\* C7: after handleDeleteTopic removed X from the list, the server having
\* deleted it, a refresh whose request was in flight when the delete
\* completed does not put X back.
C7_DeleteSurvivesRefresh ==
    [][ \A k \in 1..Len(ops) : \A i \in 1..Len(loops) :
          ( /\ ops[k].kind = "delete" /\ ops[k].pc = "done"
            /\ ops[k].deleted
            /\ i \in ops[k].inflight
            /\ loops[i].pc \in {"refresh", "final"}
            /\ Publishes(i)
            /\ ops[k].topic.id \notin Ids(topics) )
          => ops[k].topic.id \notin Ids(topics')
      ]_vars

-----------------------------------------------------------------------------
(* C8 *)

\* C8: the continuation of handleRetryTopic on X runs after the delete
\* request resolved; it dispatches the generate request under a new id
\* N' # X, and the list it publishes starts with the placeholder of N' and
\* has no entry with id X.
C8_RetryUsesNewId ==
    [][ \A k \in 1..Len(ops) :
          RetryResumes(k) =>
              LET X == ops[k].topic.id
                  N == loops'[Len(loops')].id
              IN  /\ Len(loops') = Len(loops) + 1
                  /\ { g.node_id : g \in gens' \ gens } \subseteq {N}
                  /\ N \in { g.node_id : g \in gens' }
                  /\ topics'[1].id = N
                  /\ topics'[1].status = "generating"
                  /\ N # X
                  /\ X \notin Ids(topics')
      ]_vars

-----------------------------------------------------------------------------
(* C9 *)

Active(i) == i <= Len(loops) /\ loops[i].pc # "done"

\* C9: no two active polling loops have the same topic id.
C9_OneLoopPerId ==
    \A i, j \in 1..Len(loops) :
        (i # j /\ Active(i) /\ Active(j)) => loops[i].id # loops[j].id

-----------------------------------------------------------------------------
(* C10 *)

-----------------------------------------------------------------------------
(* Properties of the gateway *)

Settled(op) == call.op = op /\ call.pc = "settled"

\* C11: whatever the transport does (a response with a good body, a timeout,
\* a network error, a body that is not JSON), getTopics and getCards resolve,
\* with the empty list when the call failed, and markLearnt and deleteTopic
\* resolve, with the empty object when the call failed; none of them rejects.
C11_GatewayNeverRejects ==
    /\ \A op \in ReadOps :
        Settled(op) =>
            /\ call.result.how = "resolved"
            /\ call.outcome # "success" => call.result.value = <<>>
    /\ \A op \in WriteOps :
        Settled(op) =>
            /\ call.result.how = "resolved"
            /\ call.outcome # "success" => call.result.value = EmptyBody

\* A legacy getTopics whose response was not JSON has resolved to [].
C11_Witness ==
    /\ Settled("getTopics")
    /\ call.build = "legacy"
    /\ call.outcome = "unparseable body"
    /\ call.result = Resolved(<<>>)

\* C12: every gateway operation is bounded by a timer: when the backend never
\* answers the request, the operation still returns to its caller.
C12_CallsReturn == Busy ~> ~Busy

-----------------------------------------------------------------------------
(* Properties of the submission *)

\* The promise of a generate request settles in this step
RequestSettles == gens' \subseteq gens /\ gens' # gens

\* C13: what becomes of the generate request never reaches the orchestrator.
\* handleGenerate publishes the placeholder and starts the loop while the
\* request is still unanswered; the step in which the request settles, with a
\* response or with a failure, changes nothing the orchestrator holds; and a
\* loop completes only in the step that resumes from a list-topics request,
\* as Ready only after its poll has seen the topic ready.
C13_GenerateOutcomeIgnored ==
    [][ /\ Generates =>
            LET l == loops'[Len(loops')]
            IN  /\ \E g \in gens' : g.node_id = l.id /\ g.at = "sent"
                /\ Head(topics').id = l.id
                /\ Head(topics').status = "generating"
                /\ generatingTopicId' = << l.id >>
                /\ l.pc = "timer"
        /\ RequestSettles =>
            UNCHANGED <<topics, activeTopic, generatingTopicId, loops, ops,
                        load>>
        /\ \A i \in 1..Len(loops) :
            Publishes(i) =>
                /\ loops[i].pc \in { "refresh", "final" }
                /\ UNCHANGED <<gens, genLog>>
                /\ loops[i].pc = "refresh" =>
                    /\ loops[i].seen # <<>>
                    /\ loops[i].seen[1].status = "ready"
      ]_vars

\* The request of a generation has failed and its loop has still completed
\* with the topic ready.
C13_Witness ==
    /\ "timed out (expected)" \in genLog
    /\ \E i \in 1..Len(loops) :
        /\ loops[i].pc = "done"
        /\ loops[i].origin = "generate"
        /\ Entries(topics, loops[i].id) # <<>>
        /\ Entries(topics, loops[i].id)[1].status = "ready"

-----------------------------------------------------------------------------
(* Properties of the mappers *)

\* C14: isReadyStatus is true for a status written from a ready synonym in
\* any casing and between any whitespace, and false for a status written
\* from any other word, for the empty string and for an absent status;
\* images_pending counts as a synonym in the current build only.
\* mapBackendTopic gives status 'ready' exactly when isReadyStatus is true of
\* the record's status, and 'generating' otherwise.
C14_ReadyExactlyForSynonyms ==
    LET synonyms ==
            { <<"r","e","a","d","y">>, <<"c","o","m","p","l","e","t","e","d">>,
              <<"d","o","n","e">>, <<"c","o","m","p","l","e","t","e">>,
              <<"f","i","n","i","s","h","e","d">> }
        imagesPending ==
            <<"i","m","a","g","e","s","_","p","e","n","d","i","n","g">>
    IN  /\ call.op = "isReadyStatus" =>
            IF call.word = <<>> THEN ~call.ready
            ELSE IF call.word[1] \in synonyms THEN call.ready
            ELSE IF call.word[1] = imagesPending
                 THEN call.ready = (call.build = "current")
                 ELSE ~call.ready
        /\ call.op = "mapBackendTopic" =>
            call.topic.status = IF isReadyStatus(Opt(call.item, "status"))
                                THEN "ready" ELSE "generating"

\* A synonym in capitals between whitespace has been taken for ready.
C14_Witness ==
    /\ call.op = "isReadyStatus"
    /\ call.status = << <<"\t", "\n", "D", "O", "N", "E", " ">> >>
    /\ call.ready

\* C15: at every reading of the clock, a record whose status is not ready,
\* whose card count is zero and whose created_at lies more than ten minutes
\* back is stuck; a record is not stuck when its status is ready, when its
\* card count is not zero, when its created_at is ten minutes old or less,
\* or when it has no created_at that can be read.
C15_StuckExactly ==
    call.op = "isStuckGenerating" =>
        LET item == call.item
            ready == "status" \in DOMAIN item /\ item.status = COMPLETED_RAW
            count == IF "card_count" \in DOMAIN item THEN item.card_count
                     ELSE 0
            dated == "created_at" \in DOMAIN item /\ item.created_at.valid
            age == call.at - item.created_at.ms
            tenMinutes == 10 * 60 * 1000
        IN  /\ (~ready /\ count = 0 /\ dated /\ age > tenMinutes)
                  => call.stuck
            /\ ready => ~call.stuck
            /\ count # 0 => ~call.stuck
            /\ (dated /\ age <= tenMinutes) => ~call.stuck
            /\ ~dated => ~call.stuck

\* A pending record without cards, created fifteen minutes ago, is stuck.
C15_Witness ==
    /\ call.op = "isStuckGenerating"
    /\ "status" \in DOMAIN call.item
    /\ call.item.status = PENDING_RAW
    /\ "card_count" \in DOMAIN call.item
    /\ call.item.card_count = 0
    /\ "created_at" \in DOMAIN call.item
    /\ call.item.created_at.valid
    /\ call.at - call.item.created_at.ms = 15 * 60 * 1000
    /\ call.stuck

-----------------------------------------------------------------------------
(* Properties of the stuck flag *)

\* The poll that loop i awaits shows the loop's own topic flagged stuck
OwnStuck(i) ==
    LET found == Find(getTopics(loops[i].resp, now), loops[i].id)
    IN  found # <<>> /\ found[1].stuck

\* The list on screen shows topic id flagged stuck
Flagged(id) ==
    \E j \in 1..Len(topics) :
        /\ topics[j].id = id
        /\ "stuck" \in DOMAIN topics[j]
        /\ topics[j].stuck

\* C16: the stuck flag starts nothing.  A loop whose poll shows its own topic
\* flagged stuck goes on to its next tick like any loop whose topic is not
\* ready; a record leaves the server only in the step of a user's delete or
\* retry of that topic; and a generate request is sent only by a user's
\* submission or by the continuation of a user's retry.
C16_StuckIsAdvisory ==
    [][ /\ \A i \in 1..Len(loops) :
            (loops[i].pc = "poll" /\ Ticks(i) /\ OwnStuck(i)) =>
                /\ loops'[i].pc = "timer"
                /\ UNCHANGED <<topics, activeTopic, generatingTopicId,
                               backend, gens, ops>>
        /\ \A k \in 1..Len(backend) :
            (\A n \in 1..Len(backend') :
                backend'[n].node_id # backend[k].node_id) =>
                /\ Len(ops') = Len(ops) + 1
                /\ ops'[Len(ops')].kind \in { "delete", "retry" }
                /\ ops'[Len(ops')].topic.id = backend[k].node_id
        /\ (\E g \in gens' \ gens : g.at = "sent") =>
            \/ Generates
            \/ \E k \in 1..Len(ops) : RetryResumes(k)
      ]_vars

\* A topic is on screen flagged stuck while its loop waits for the next tick.
C16_Witness ==
    \E i \in 1..Len(loops) :
        /\ loops[i].pc = "timer"
        /\ loops[i].due > loops[i].startTime + FIRST_POLL_MS
        /\ Flagged(loops[i].id)

-----------------------------------------------------------------------------
(* Properties of the mappers, continued *)

-----------------------------------------------------------------------------
(* Properties of the batches *)

\* C18: a malformed record in a batch (a null entry, a quiz whose choices are
\* no list) costs the batch that record only: getCards returns the cards of
\* all the other records, and getTopics the topics of all the other records.
C18_OnlyMalformedDropped ==
    LET readBatch(op) ==
            /\ Settled(op)
            /\ call.outcome \in { "success", "mapping failed" }
            /\ call.body.kind # "null"
        wellFormedALU(alu) == ~mapALUToCardThrows(alu)
        wellFormedItem(item) == ~isNullEntry(item)
    IN  /\ readBatch("getCards") =>
            call.result.value =
                mapCards(SelectSeq(itemsOf(call.body, CARD_KEYS),
                                   wellFormedALU))
        /\ readBatch("getTopics") =>
            LET kept == SelectSeq(itemsOf(call.body, TOPIC_KEYS),
                                  wellFormedItem)
                got == call.result.value
            IN  /\ Len(got) = Len(kept)
                /\ \A i \in 1..Len(kept) : got[i].id = kept[i].node_id

\* The discriminator of a record: post_type when the record has one that is
\* not null, otherwise card_type, otherwise JSON_NULL
Discriminator(alu) ==
    IF "post_type" \in DOMAIN alu /\ alu.post_type # JSON_NULL
    THEN alu.post_type
    ELSE IF "card_type" \in DOMAIN alu /\ alu.card_type # JSON_NULL
         THEN alu.card_type
         ELSE JSON_NULL

Recognised(alu) == Discriminator(alu) \in { "image", "quiz", "flashcard" }

\* C19: mapALUToCard returns null for a record whose discriminator is not
\* image, quiz or flashcard, and a card of the discriminator's type for a
\* record whose discriminator is one of them, whichever of the two fields
\* holds it.  getCards, on a batch it maps to the end, returns one card for
\* each recognised record, in the order of the batch, and none for the
\* others.
C19_DispatchOnDiscriminator ==
    /\ (call.op = "mapALUToCard" /\ ~call.threw) =>
        IF Recognised(call.alu)
        THEN /\ call.card # <<>>
             /\ call.card[1].card_type = Discriminator(call.alu)
             /\ call.card[1].id = call.alu.alu_id
        ELSE call.card = <<>>
    /\ (Settled("getCards") /\ call.outcome = "success") =>
        LET kept == SelectSeq(itemsOf(call.body, CARD_KEYS), Recognised)
            cards == call.result.value
        IN  /\ Len(cards) = Len(kept)
            /\ \A i \in 1..Len(kept) :
                /\ cards[i].id = kept[i].alu_id
                /\ cards[i].card_type = Discriminator(kept[i])

\* getCards has returned the one card of a batch of a record of unknown type
\* followed by a flashcard record.
C19_Witness ==
    /\ Settled("getCards")
    /\ call.outcome = "success"
    /\ call.body.kind = "array"
    /\ call.body.items = << VideoALU, FlashALU >>
    /\ Len(call.result.value) = 1
    /\ call.result.value[1].card_type = "flashcard"

\* The number that a string of decimal digits denotes
RECURSIVE DecimalValue(_)
DecimalValue(ds) ==
    LET digit(c) == (CHOOSE k \in 1..10 : DIGITS[k] = c) - 1
    IN  IF Len(ds) = 1 THEN digit(ds[1])
        ELSE 10 * DecimalValue(SubSeq(ds, 1, Len(ds) - 1))
             + digit(ds[Len(ds)])

\* ds is the decimal string of the natural number n
IsDecimalOf(ds, n) ==
    /\ Len(ds) >= 1
    /\ \A k \in 1..Len(ds) : \E j \in 1..10 : DIGITS[j] = ds[k]
    /\ Len(ds) > 1 => ds[1] # "0"
    /\ DecimalValue(ds) = n

\* The record of the call is a quiz with nested choices
NestedQuiz ==
    /\ call.op = "mapALUToCard"
    /\ ~call.threw
    /\ Discriminator(call.alu) = "quiz"
    /\ "quiz" \in DOMAIN call.alu
    /\ "choices" \in DOMAIN call.alu.quiz

\* C20: the card of a quiz record with nested choices c0 .. c(n-1) has n
\* options, the option at position i having the decimal string of i as id
\* and ci as text, and its correctOptionId is the decimal string of
\* quiz.answer_index, or '0' when the record has no answer_index.
C20_QuizOptionsByIndex ==
    NestedQuiz =>
        LET choices == call.alu.quiz.choices.items
            card == call.card[1]
        IN  /\ Len(card.options) = Len(choices)
            /\ \A i \in 1..Len(choices) :
                /\ IsDecimalOf(card.options[i].id, i - 1)
                /\ card.options[i].text = choices[i]
            /\ IF "answer_index" \in DOMAIN call.alu.quiz
               THEN IsDecimalOf(card.correctOptionId,
                                call.alu.quiz.answer_index)
               ELSE card.correctOptionId = << "0" >>

\* The quiz with choices A, B, C and answer_index 1 has been mapped to the
\* options 0:A, 1:B, 2:C with correctOptionId 1.
C20_Witness ==
    /\ NestedQuiz
    /\ call.alu = QuizALU
    /\ call.card[1].options = << [id |-> <<"0">>, text |-> "A"],
                                 [id |-> <<"1">>, text |-> "B"],
                                 [id |-> <<"2">>, text |-> "C"] >>
    /\ call.card[1].correctOptionId = << "1" >>

\* C21: the card of a flashcard record whose flashcard mapping has an entry
\* has the key of the first entry as front and its value as back, whatever
\* further entries and explicit front and back fields the record has; the
\* card of a record without the mapping (or with an empty one) has the
\* explicit front and back fields, '' for one that is missing.
C21_FlashcardFirstEntry ==
    (call.op = "mapALUToCard" /\ ~call.threw
        /\ Discriminator(call.alu) = "flashcard") =>
        LET alu == call.alu
            card == call.card[1]
            hasEntry == "flashcard" \in DOMAIN alu /\ Len(alu.flashcard) >= 1
        IN  IF hasEntry
            THEN /\ card.front = alu.flashcard[1][1]
                 /\ card.back = alu.flashcard[1][2]
            ELSE /\ card.front = IF "front" \in DOMAIN alu THEN alu.front
                                 ELSE ""
                 /\ card.back = IF "back" \in DOMAIN alu THEN alu.back
                                ELSE ""

\* A record with two entries and explicit fields has been mapped to the
\* first entry.
C21_Witness ==
    /\ call.op = "mapALUToCard"
    /\ ~call.threw
    /\ Discriminator(call.alu) = "flashcard"
    /\ "front" \in DOMAIN call.alu
    /\ "flashcard" \in DOMAIN call.alu
    /\ Len(call.alu.flashcard) = 2
    /\ call.card[1].front = "What is X?"
    /\ call.card[1].back = "X is Y"

-----------------------------------------------------------------------------
(* Properties of the polling loops *)

\* C22: a loop has one tick at a time.  Its timer is set exactly while it
\* waits for a tick, so never while a request of it is in flight; a tick
\* starts only when the timer of the loop fires; the second request of a tick
\* is sent only when the first has resolved; and the next timer is set only
\* when the request of the tick has resolved with a result that is not ready.
C22_TicksAreSequential ==
    [][ \A i \in 1..Len(loops') :
            /\ (loops'[i].pc = "timer") = (loops'[i].due > 0)
            /\ (i <= Len(loops) /\ loops'[i].pc # loops[i].pc) =>
                /\ loops'[i].pc \in { "poll", "final" } =>
                    /\ loops[i].pc = "timer"
                    /\ now >= loops[i].due
                /\ loops'[i].pc = "refresh" => loops[i].pc = "poll"
                /\ loops'[i].pc = "timer" =>
                    /\ loops[i].pc = "poll"
                    /\ pollTopicStatus(loops[i].resp, loops[i].id, now)
                           = "generating"
                /\ loops'[i].pc = "done" =>
                    loops[i].pc \in { "refresh", "final" }
            /\ (i <= Len(loops) /\ loops'[i].pc = loops[i].pc) =>
                loops'[i] = loops[i]
      ]_vars

\* A loop waits for its next tick after a tick whose request was answered
\* with a list that does not show the topic ready.
C22_Witness ==
    \E i \in 1..Len(loops) :
        /\ loops[i].pc = "timer"
        /\ ~loops[i].failed
        /\ loops[i].due > loops[i].startTime + FIRST_POLL_MS


\* C23: a loop for N completes as Ready (it leaves the tick that polled for
\* the refresh of the ready branch, and publishes before the deadline) only
\* when the response to the list-topics request of that tick has succeeded
\* and holds an entry of N whose status is a ready synonym; after a failed
\* request, a response without N or a response whose entry of N is not ready
\* the loop sets its next timer instead.
C23_ReadyOnlyOnReadyResponse ==
    [][ \A i \in 1..Len(loops) :
            LET r == loops[i].resp
                own == IF r.ok
                       THEN { k \in 1..Len(r.items) :
                                r.items[k].node_id = loops[i].id }
                       ELSE {}
                ready == \E k \in own :
                            /\ \A j \in own : k <= j
                            /\ isReadyStatus(Opt(r.items[k], "status"))
            IN  /\ (loops[i].pc = "poll" /\ Ticks(i)) =>
                    /\ ready => loops'[i].pc = "refresh"
                    /\ ~ready => /\ loops'[i].pc = "timer"
                                 /\ UNCHANGED <<topics, activeTopic,
                                                generatingTopicId>>
                /\ (Publishes(i) /\ ~deadlinePassed(loops[i].elapsed)) =>
                    /\ loops[i].pc = "refresh"
                    /\ loops[i].seen # <<>>
                    /\ loops[i].seen[1].id = loops[i].id
                    /\ loops[i].seen[1].status = "ready"
      ]_vars

\* A loop has found its topic ready in a response and awaits the refresh,
\* while another loop has polled and found its own topic not ready.
C23_Witness ==
    \E i, j \in 1..Len(loops) :
        /\ loops[i].pc = "refresh"
        /\ loops[i].seen # <<>>
        /\ loops[i].elapsed <= MAX_POLL_MS
        /\ loops[j].pc = "timer"
        /\ loops[j].due > loops[j].startTime + FIRST_POLL_MS


\* C24: the first timer of a loop is set for 3 s after the submission; a tick
\* measures the elapsed time when it starts, and when its poll resolves not
\* ready it sets the next timer for 4 s later if that elapsed time is below
\* 120 s and for 8 s later otherwise; a loop sends no list-topics request
\* before 3 s have passed since its submission.  (Instants past the last
\* reading of the clock are read as that reading.)
C24_PollDelays ==
    [][ /\ Len(loops') > Len(loops) =>
            LET l == loops'[Len(loops')]
                first == l.startTime + 3000
            IN  /\ l.startTime = now
                /\ l.pc = "timer"
                /\ l.due = IF first > LastClock THEN LastClock ELSE first
        /\ \A i \in 1..Len(loops) :
            /\ (loops[i].pc = "timer" /\ Ticks(i)) =>
                /\ loops'[i].elapsed = now - loops[i].startTime
                /\ now >= loops[i].startTime + 3000 \/ now = LastClock
            /\ (loops[i].pc = "poll" /\ loops'[i].pc = "timer") =>
                LET next == now + (IF loops[i].elapsed < 120000
                                   THEN 4000 ELSE 8000)
                IN  loops'[i].due = IF next > LastClock THEN LastClock
                                    ELSE next
            /\ loops'[i].pc \in { "poll", "refresh", "final" } =>
                now >= loops[i].startTime + 3000 \/ now = LastClock
      ]_vars

\* A tick that started 120 s after the submission has resolved not ready,
\* and the next timer of the loop is set 8 s after it.
C24_Witness ==
    \E i \in 1..Len(loops) :
        /\ loops[i].pc = "timer"
        /\ loops[i].startTime = 0
        /\ now = SLOW_AFTER_MS
        /\ loops[i].due = SLOW_AFTER_MS + SLOW_INTERVAL_MS


-----------------------------------------------------------------------------
(* Properties of the active topic and the generating marker *)

\* C25: the active topic is null or a topic whose id is in the list.
C25_ActiveIsListed ==
    activeTopic = <<>> \/ activeTopic[1] \in Ids(topics)


\* C26: a loop for A that completes, ready or at its deadline, while the
\* generating marker names another topic B whose loop is still polling,
\* leaves the marker as it is.
C26_MarkerClearedByOwnLoop ==
    [][ \A i \in 1..Len(loops) :
          ( /\ Publishes(i)
            /\ generatingTopicId # <<>>
            /\ generatingTopicId[1] # loops[i].id
            /\ \E j \in 1..Len(loops) :
                  /\ loops[j].id = generatingTopicId[1]
                  /\ Active(j) )
          => generatingTopicId' = generatingTopicId
      ]_vars


\* C27: a loop that completes, ready or at its deadline, while the active
\* topic is a topic other than its own, leaves the active topic as it is.
C27_ResolveKeepsOtherActive ==
    [][ \A i \in 1..Len(loops) :
          ( /\ Publishes(i)
            /\ activeTopic # <<>>
            /\ activeTopic[1] # loops[i].id )
          => activeTopic' = activeTopic
      ]_vars


\* C28: when handleDeleteTopic(X) completes, the list becomes the list
\* without X, the other entries as they were and in their order; the active
\* topic becomes the first remaining topic (null if none remains) if X is
\* the active topic at that moment, and is unchanged otherwise.
C28_DeleteFrame ==
    [][ \A k \in 1..Len(ops) :
          ( /\ ops[k].kind = "delete"
            /\ ops[k].pc = "awaiting"
            /\ ops'[k].pc = "done" )
          => LET X == ops[k].topic.id
                 other(t) == t.id # X
             IN  /\ topics' = SelectSeq(topics, other)
                 /\ activeTopic' =
                      IF activeTopic = <<X>>
                      THEN (IF topics' = <<>> THEN <<>>
                            ELSE <<topics'[1].id>>)
                      ELSE activeTopic
      ]_vars


-----------------------------------------------------------------------------
(* Properties of the cards, continued *)

\* C29: the correctOptionId of every quiz card mapALUToCard returns is the
\* id of exactly one option of the card.
C29_OneCorrectOption ==
    ( /\ call.op = "mapALUToCard"
      /\ ~call.threw
      /\ call.card # <<>>
      /\ call.card[1].card_type = "quiz" ) =>
        LET card == call.card[1]
        IN  Cardinality({ i \in 1..Len(card.options) :
                            card.options[i].id = card.correctOptionId }) = 1


-----------------------------------------------------------------------------
(* Properties of the feed screen *)

\* C30: whenever the screen shows a topic that is not generating and is not
\* loading, its cards are the initial empty list or a result of getCards for
\* that topic.
C30_CardsOfShownTopic ==
    (feed.topic # <<>> /\ ~feed.isGenerating /\ ~feed.loading) =>
        \/ feed.cards = <<>>
        \/ \E ok \in BOOLEAN : feed.cards = getCards(feed.topic[1], ok)

====
